---- MODULE Spec2Model ----
(***************************************************************************)
(* Model of itsmine (src/main.rs): a command-line resource-consumption     *)
(* simulator.  A Resource (Memory{arg} or Thread{num}) is turned into a    *)
(* strategy by from_resource and the strategy is then executed.            *)
(*                                                                         *)
(* Strings are sequences of one-character strings.  A u64 is a sequence of *)
(* 8 bytes, least significant first, so that 64-bit overflow is exact.     *)
(* usize is taken to be 64 bits wide (a 64-bit target).                    *)
(***************************************************************************)
EXTENDS Integers, Sequences, FiniteSets, TLC

(***************************************************************************)
(* Bounds of the model.                                                    *)
(***************************************************************************)
\* longest size string drawn from Alphabet
MaxLen == 3
\* largest worker count given on the command line
MaxThreads == 3
\* bytes the allocator can hand out; a larger request returns null
HeapCapacity == 1024

(***************************************************************************)
(* u64 arithmetic on 8 little-endian bytes.                                *)
(***************************************************************************)
U64Bytes == 8

RECURSIVE NatToBytes(_, _)
NatToBytes(n, k) ==
    IF k = 0 THEN <<>> ELSE <<n % 256>> \o NatToBytes(n \div 256, k - 1)

U64FromNat(n) == NatToBytes(n, U64Bytes)

U64Zero == U64FromNat(0)

RECURSIVE Zeros(_)
Zeros(k) == IF k <= 0 THEN <<>> ELSE <<0>> \o Zeros(k - 1)

\* bytes i.. of x * m + c (m, c < 256), followed by the final carry byte
RECURSIVE MulAddFrom(_, _, _, _)
MulAddFrom(x, m, c, i) ==
    IF i > Len(x) THEN <<c>>
    ELSE LET t == x[i] * m + c
         IN  <<t % 256>> \o MulAddFrom(x, m, t \div 256, i + 1)

\* bytes i.. of a + b + c for equally long a and b, followed by the carry
RECURSIVE AddFrom(_, _, _, _)
AddFrom(a, b, c, i) ==
    IF i > Len(a) THEN <<c>>
    ELSE LET t == a[i] + b[i] + c
         IN  <<t % 256>> \o AddFrom(a, b, t \div 256, i + 1)

\* u64::checked_mul by a small factor: the low 8 bytes and the overflow flag
CheckedMulSmall(x, m) ==
    LET r == MulAddFrom(x, m, 0, 1)
    IN  [val |-> SubSeq(r, 1, U64Bytes), overflow |-> r[U64Bytes + 1] # 0]

\* u64::checked_add of a small addend
CheckedAddSmall(x, d) ==
    LET r == MulAddFrom(x, 1, d, 1)
    IN  [val |-> SubSeq(r, 1, U64Bytes), overflow |-> r[U64Bytes + 1] # 0]

\* the full 128-bit product of two u64 values, as 16 bytes
RECURSIVE WideMulFrom(_, _, _, _)
WideMulFrom(x, y, acc, j) ==
    IF j > U64Bytes THEN acc
    ELSE LET partial == Zeros(j - 1) \o MulAddFrom(x, y[j], 0, 1)
                            \o Zeros(U64Bytes - j)
             sum == AddFrom(acc, partial, 0, 1)
         IN  WideMulFrom(x, y, SubSeq(sum, 1, 2 * U64Bytes), j + 1)

WideMul(x, y) == WideMulFrom(x, y, Zeros(2 * U64Bytes), 1)

\* x * y on u64: the wrapped product and whether the true product overflowed
U64Mul(x, y) ==
    LET w == WideMul(x, y)
    IN  [val |-> SubSeq(w, 1, U64Bytes),
         overflow |-> SubSeq(w, U64Bytes + 1, 2 * U64Bytes) # Zeros(U64Bytes)]

\* a < b on byte sequences of equal length, most significant byte last
RECURSIVE BytesLtFrom(_, _, _)
BytesLtFrom(a, b, i) ==
    IF i = 0 THEN FALSE
    ELSE IF a[i] # b[i] THEN a[i] < b[i]
    ELSE BytesLtFrom(a, b, i - 1)

U64Lt(a, b) == BytesLtFrom(a, b, U64Bytes)

U64Le(a, b) == a = b \/ U64Lt(a, b)

\* the value of a u64 below 2^24 as a number
U64ToNat(x) == x[1] + 256 * x[2] + 65536 * x[3]

\* isize::MAX = 2^63 - 1
IsizeMax == <<255, 255, 255, 255, 255, 255, 255, 127>>

(***************************************************************************)
(* Strings.                                                                *)
(***************************************************************************)
\* variant: the character is looked for anywhere in the string
EndsWithContains(s, c) == \E k \in 1..Len(s) : s[k] = c

\* str::ends_with(char)
EndsWith(s, c) == Len(s) > 0 /\ s[Len(s)] = c

\* str::strip_suffix: the prefix, or none
StripSuffix(s, c) ==
    IF EndsWith(s, c)
    THEN [some |-> TRUE, val |-> SubSeq(s, 1, Len(s) - 1)]
    ELSE [some |-> FALSE, val |-> <<>>]

\* char::to_digit(10); -1 stands for None
ToDigit(c) ==
    CASE c = "0" -> 0 [] c = "1" -> 1 [] c = "2" -> 2 [] c = "3" -> 3
      [] c = "4" -> 4 [] c = "5" -> 5 [] c = "6" -> 6 [] c = "7" -> 7
      [] c = "8" -> 8 [] c = "9" -> 9 [] OTHER -> -1

ParseOk(v) == [ok |-> TRUE, val |-> v, kind |-> "none"]

ParseErr(k) == [ok |-> FALSE, val |-> U64Zero, kind |-> k]

\* the digit loop taken when the digits cannot overflow (at most 16 of them)
RECURSIVE ParseUnchecked(_, _, _)
ParseUnchecked(digits, i, acc) ==
    IF i > Len(digits) THEN ParseOk(acc)
    ELSE LET x == ToDigit(digits[i])
         IN  IF x < 0 THEN ParseErr("InvalidDigit")
             ELSE ParseUnchecked(digits, i + 1,
                      CheckedAddSmall(CheckedMulSmall(acc, 10).val, x).val)

\* the digit loop with checked_mul and checked_add
RECURSIVE ParseChecked(_, _, _)
ParseChecked(digits, i, acc) ==
    IF i > Len(digits) THEN ParseOk(acc)
    ELSE LET mul == CheckedMulSmall(acc, 10)
             x   == ToDigit(digits[i])
         IN  IF x < 0 THEN ParseErr("InvalidDigit")
             ELSE IF mul.overflow THEN ParseErr("PosOverflow")
             ELSE LET add == CheckedAddSmall(mul.val, x)
                  IN  IF add.overflow THEN ParseErr("PosOverflow")
                      ELSE ParseChecked(digits, i + 1, add.val)

\* digits that can never overflow a u64: 2 * size_of::<u64>()
SafeDigits == 16

\* str::parse::<u64>
ParseU64(s) ==
    IF s = <<>> THEN ParseErr("Empty")
    ELSE IF Len(s) = 1 /\ s[1] \in {"+", "-"} THEN ParseErr("InvalidDigit")
    ELSE LET digits == IF s[1] = "+" THEN Tail(s) ELSE s
         IN  IF Len(digits) <= SafeDigits
             THEN ParseUnchecked(digits, 1, U64Zero)
             ELSE ParseChecked(digits, 1, U64Zero)

(***************************************************************************)
(* Resources and strategy construction.                                    *)
(***************************************************************************)
ResMemory(arg) == [kind |-> "Memory", arg |-> arg, num |-> 0]

ResThread(num) == [kind |-> "Thread", arg |-> <<>>, num |-> num]

NoDetail == [s |-> <<>>, e |-> "none"]

\* the outcome of a constructor: a strategy, a returned error or a panic
Ok(size, multiplier, count) ==
    [tag |-> "Ok", size |-> size, multiplier |-> multiplier, count |-> count,
     msg |-> "", detail |-> NoDetail]

Err(msg) ==
    [tag |-> "Err", size |-> U64Zero, multiplier |-> 0, count |-> 0,
     msg |-> msg, detail |-> NoDetail]

Panic(msg, detail) ==
    [tag |-> "Panic", size |-> U64Zero, multiplier |-> 0, count |-> 0,
     msg |-> msg, detail |-> detail]

NoResult ==
    [tag |-> "None", size |-> U64Zero, multiplier |-> 0, count |-> 0,
     msg |-> "", detail |-> NoDetail]

\* variant: decimal instead of binary units
SuffixOfDecimal(size_str) ==
    IF EndsWith(size_str, "B") THEN [multiplier |-> 1, suffix |-> "B"]
    ELSE IF EndsWith(size_str, "K") THEN [multiplier |-> 1000, suffix |-> "K"]
    ELSE IF EndsWith(size_str, "M")
         THEN [multiplier |-> 1000 * 1000, suffix |-> "M"]
    ELSE IF EndsWith(size_str, "G")
         THEN [multiplier |-> 1000 * 1000 * 1000, suffix |-> "G"]
    ELSE [multiplier |-> 0, suffix |-> ""]

\* the (multiplier, suffix) chosen by the ends_with chain; multiplier 0: none
SuffixOf(size_str) ==
    IF EndsWith(size_str, "B") THEN [multiplier |-> 1, suffix |-> "B"]
    ELSE IF EndsWith(size_str, "K") THEN [multiplier |-> 1024, suffix |-> "K"]
    ELSE IF EndsWith(size_str, "M")
         THEN [multiplier |-> 1024 * 1024, suffix |-> "M"]
    ELSE IF EndsWith(size_str, "G")
         THEN [multiplier |-> 1024 * 1024 * 1024, suffix |-> "G"]
    ELSE [multiplier |-> 0, suffix |-> ""]

\* variant: a failed parse is returned with ? instead of expect
MemoryFromResourcePropagate(r) ==
    IF r.kind = "Thread"
    THEN Err("Expected Memory resource, got Thread resource")
    ELSE LET size_str == r.arg
             ms       == SuffixOf(size_str)
         IN  IF ms.multiplier = 0
             THEN Err("Invalid memory size suffix. Use B, K, M, or G.")
             ELSE LET stripped == StripSuffix(size_str, ms.suffix)
                  IN  IF ~stripped.some
                      THEN Err("Invalid memory size")
                      ELSE LET p == ParseU64(stripped.val)
                           IN  IF ~p.ok
                               THEN Err("Failed to parse memory size")
                               ELSE Ok(p.val, ms.multiplier, 0)

\* Memory::from_resource
MemoryFromResource(r) ==
    IF r.kind = "Thread"
    THEN Err("Expected Memory resource, got Thread resource")
    ELSE LET size_str == r.arg
             ms       == SuffixOf(size_str)
         IN  IF ms.multiplier = 0
             THEN Err("Invalid memory size suffix. Use B, K, M, or G.")
             ELSE LET stripped == StripSuffix(size_str, ms.suffix)
                  IN  IF ~stripped.some
                      THEN Panic("Failed to parse memory size",
                                 [s |-> size_str, e |-> "Invalid memory size"])
                      ELSE LET p == ParseU64(stripped.val)
                           IN  IF ~p.ok
                               THEN Panic("Failed to parse memory size",
                                          [s |-> stripped.val, e |-> p.kind])
                               ELSE Ok(p.val, ms.multiplier, 0)

\* Thread::new
ThreadNew(num) == Ok(U64Zero, 0, num)

\* variant: the kind of the resource is not looked at
ThreadFromResourceAnyKind(r) == ThreadNew(r.num)

\* Thread::from_resource
ThreadFromResource(r) ==
    IF r.kind = "Thread" THEN ThreadNew(r.num)
    ELSE Err("Expected Thread resource, got Memory resource")

\* fibonacci
RECURSIVE fibonacci(_)
fibonacci(n) == IF n <= 1 THEN n ELSE fibonacci(n - 1) + fibonacci(n - 2)

\* the workload of one worker: fibonacci(30)
Workload == fibonacci(30)

(***************************************************************************)
(* Inputs.                                                                 *)
(***************************************************************************)
Alphabet == {"0", "1", "9", "B", "K", "M", "G", "X", "k", "+", "-"}

RECURSIVE StringsOfLen(_)
StringsOfLen(n) ==
    IF n = 0 THEN {<<>>}
    ELSE {Append(s, c) : s \in StringsOfLen(n - 1), c \in Alphabet}

ShortArgs == UNION {StringsOfLen(n) : n \in 0..MaxLen}

U64MaxDigits ==
    <<"1","8","4","4","6","7","4","4","0","7","3","7","0","9","5","5","1","6","1","5">>

\* size strings of the tests and of the edges of the grammar
ExtraArgs ==
    { <<"1","0","0","B">>, <<"2","G">>, <<"0","K">>, <<"1","0">>,
      <<"1","0","X">>, <<"1","0","k">>, <<"a","b","c","K">>,
      <<"1",".","5","M">>, <<" ","1","K">>, <<"1"," ","K">>,
      <<"1","0","0","K">>, <<"6","4","K">>, <<"0","0","0","7","B">>,
      <<"+","0","0","5","B">>, <<"1","2","3","4","5","6","7","8","9","B">>,
      U64MaxDigits \o <<"B">>,
      <<"1","8","4","4","6","7","4","4","0","7","3","7","0","9","5","5","1","6","1","6","B">>,
      <<"0">> \o U64MaxDigits \o <<"M">>,
      <<"9","9","9","9","9","9","9","9","9","9","9","9","9","9","9","9","9","9","9","9","K">>,
      <<"9","9","9","9","9","9","9","9","9","9","9","9","9","9","9","9","9","9","9","9","x","K">>,
      <<"1","7","1","7","9","8","6","9","1","8","4","G">>,
      <<"1","8","0","1","4","3","9","8","5","0","9","4","8","1","9","8","5","K">>,
      <<"9","2","2","3","3","7","2","0","3","6","8","5","4","7","7","5","8","0","7","B">> }

Args == ShortArgs \cup ExtraArgs

Resources ==
    {ResMemory(a) : a \in Args} \cup {ResThread(n) : n \in 0..MaxThreads}

(***************************************************************************)
(* State.                                                                  *)
(***************************************************************************)
VARIABLES
    caller,          \* "main", or "test": a direct call of from_resource
    ctor,            \* the strategy whose from_resource is called
    res,             \* the Resource
    overflow_checks, \* the build panics on arithmetic overflow (debug)
    pc,              \* position of the calling thread
    result,          \* what from_resource produced
    panic_msg,       \* message of the calling thread's panic, "" if none
    exit_status,     \* status of the process, NoStatus while it runs
    exec_started,    \* execute has been called
    total_size,      \* Memory::execute: total_size
    layout,          \* Memory::execute: layout
    ptr,             \* Memory::execute: "none", "null", "live", "freed"
    i,               \* Memory::execute: index of the write loop
    writes,          \* history: the byte writes, in order
    alloc_log,       \* history: layouts passed to alloc
    dealloc_log,     \* history: layouts passed to dealloc
    handles,         \* Thread::execute: workers spawned, in spawn order
    wpc,             \* position of each worker
    chan,            \* messages sent on the channel and not yet received
    results,         \* Thread::execute: results
    joined,          \* Thread::execute: handles joined so far
    rx_alive,        \* the receiver has not been dropped
    sent_log,        \* history: the messages sent, in order
    recv_log         \* history: the messages received, in order

vars ==
    <<caller, ctor, res, overflow_checks, pc, result, panic_msg, exit_status,
      exec_started, total_size, layout, ptr, i, writes, alloc_log,
      dealloc_log, handles, wpc, chan, results, joined, rx_alive, sent_log,
      recv_log>>

input_vars == <<caller, ctor, res, overflow_checks>>

mem_vars == <<total_size, layout, ptr, i, writes, alloc_log, dealloc_log>>

hist_vars == <<sent_log, recv_log>>

thr_vars == <<handles, wpc, chan, results, joined, rx_alive, hist_vars>>

NoStatus == -1

\* exit status of a process whose main thread panicked
PanicStatus == 101

\* std::process::exit(1) in the error handlers of main
ErrorExit == 1

NoLayout == [size |-> U64Zero, align |-> 0]

Workers == 1..MaxThreads

Init ==
    /\ caller \in {"main", "test"}
    /\ res \in Resources
    /\ ctor \in (IF caller = "main" THEN {res.kind} ELSE {"Memory", "Thread"})
    /\ overflow_checks \in BOOLEAN
    /\ pc = "start"
    /\ result = NoResult
    /\ panic_msg = ""
    /\ exit_status = NoStatus
    /\ exec_started = FALSE
    /\ total_size = U64Zero
    /\ layout = NoLayout
    /\ ptr = "none"
    /\ i = 0
    /\ writes = <<>>
    /\ alloc_log = <<>>
    /\ dealloc_log = <<>>
    /\ handles = <<>>
    /\ wpc = [w \in Workers |-> "none"]
    /\ chan = <<>>
    /\ results = <<>>
    /\ joined = 0
    /\ rx_alive = TRUE
    /\ sent_log = <<>>
    /\ recv_log = <<>>

\* the calling thread panics; in main the process ends with status 101
PanicWith(msg) ==
    /\ pc' = "panicked"
    /\ panic_msg' = msg
    /\ exit_status' = IF caller = "main" THEN PanicStatus ELSE exit_status

(***************************************************************************)
(* Construction and dispatch.                                              *)
(***************************************************************************)
\* the call Memory::from_resource(res)
CallMemoryFromResource ==
    /\ pc = "start"
    /\ ctor = "Memory"
    /\ result' = MemoryFromResource(res)
    /\ IF result'.tag = "Panic"
       THEN PanicWith(result'.msg)
       ELSE pc' = "constructed" /\ UNCHANGED <<panic_msg, exit_status>>
    /\ UNCHANGED <<input_vars, exec_started, mem_vars, thr_vars>>

\* the call Thread::from_resource(res)
CallThreadFromResource ==
    /\ pc = "start"
    /\ ctor = "Thread"
    /\ result' = ThreadFromResource(res)
    /\ pc' = "constructed"
    /\ UNCHANGED <<input_vars, panic_msg, exit_status, exec_started,
                   mem_vars, thr_vars>>

\* unwrap_or_else on Err: main logs the error and exits with status 1
HandleErr ==
    /\ pc = "constructed"
    /\ result.tag = "Err"
    /\ IF caller = "main"
       THEN pc' = "exited" /\ exit_status' = ErrorExit
       ELSE pc' = "returned" /\ UNCHANGED exit_status
    /\ UNCHANGED <<input_vars, result, panic_msg, exec_started, mem_vars,
                   thr_vars>>

\* variant: the error handler does not leave, execute is called anyway
CallExecuteAlways ==
    /\ pc = "constructed"
    /\ pc' = IF ctor = "Memory" THEN "mem_execute" ELSE "thr_execute"
    /\ exec_started' = TRUE
    /\ UNCHANGED <<input_vars, result, panic_msg, exit_status, mem_vars,
                   thr_vars>>

\* unwrap_or_else on Ok, then .execute()
CallExecute ==
    /\ pc = "constructed"
    /\ result.tag = "Ok"
    /\ pc' = IF ctor = "Memory" THEN "mem_execute" ELSE "thr_execute"
    /\ exec_started' = TRUE
    /\ UNCHANGED <<input_vars, result, panic_msg, exit_status, mem_vars,
                   thr_vars>>

(***************************************************************************)
(* Memory::execute.                                                        *)
(***************************************************************************)
\* the alignment passed to Layout::from_size_align
Align == 8

\* Layout::from_size_align(size, Align) is an error above isize::MAX - 7
LayoutFits(size) ==
    U64Le(size, <<IsizeMax[1] - (Align - 1)>> \o Tail(IsizeMax))

\* variant: the assertion accepts zero
TotalIsNotNegative(t) == U64Le(U64Zero, t)

\* total_size > 0
TotalIsPositive(t) == U64Lt(U64Zero, t)

\* variant: the loop stops one byte early
LoopContinuesShort == i + 1 < U64ToNat(total_size)

\* i is in 0..total_size
LoopContinues == i < U64ToNat(total_size)

\* total_size = size * multiplier, then the assertion total_size > 0
ExecTotal ==
    /\ pc = "mem_execute"
    /\ LET m == U64Mul(result.size, U64FromNat(result.multiplier))
       IN  IF m.overflow /\ overflow_checks
           THEN /\ PanicWith("attempt to multiply with overflow")
                /\ UNCHANGED total_size
           ELSE /\ total_size' = m.val
                /\ IF ~TotalIsPositive(m.val)
                   THEN PanicWith("Memory size must be greater than 0")
                   ELSE /\ pc' = "mem_alloc"
                        /\ UNCHANGED <<panic_msg, exit_status>>
    /\ UNCHANGED <<input_vars, result, exec_started, layout, ptr, i, writes,
                   alloc_log, dealloc_log, thr_vars>>

\* variant: the pointer is used without the null check
ExecAllocUnchecked ==
    /\ pc = "mem_alloc"
    /\ IF ~LayoutFits(total_size)
       THEN /\ PanicWith("called Result::unwrap() on an Err value")
            /\ UNCHANGED <<layout, ptr, alloc_log>>
       ELSE /\ layout' = [size |-> total_size, align |-> Align]
            /\ alloc_log' = Append(alloc_log, layout')
            /\ \E got \in BOOLEAN :
                  /\ got => U64Le(total_size, U64FromNat(HeapCapacity))
                  /\ ptr' = IF got THEN "live" ELSE "null"
                  /\ pc' = "mem_write"
                  /\ UNCHANGED <<panic_msg, exit_status>>
    /\ i' = 0
    /\ UNCHANGED <<input_vars, result, exec_started, total_size, writes,
                   dealloc_log, thr_vars>>

\* the layout is built and std::alloc::alloc is called; it may return null
ExecAlloc ==
    /\ pc = "mem_alloc"
    /\ IF ~LayoutFits(total_size)
       THEN /\ PanicWith("called Result::unwrap() on an Err value")
            /\ UNCHANGED <<layout, ptr, alloc_log>>
       ELSE /\ layout' = [size |-> total_size, align |-> Align]
            /\ alloc_log' = Append(alloc_log, layout')
            /\ \E got \in BOOLEAN :
                  /\ got => U64Le(total_size, U64FromNat(HeapCapacity))
                  /\ IF got
                     THEN /\ ptr' = "live"
                          /\ pc' = "mem_write"
                          /\ UNCHANGED <<panic_msg, exit_status>>
                     ELSE /\ ptr' = "null"
                          /\ PanicWith("Memory allocation failed")
    /\ i' = 0
    /\ UNCHANGED <<input_vars, result, exec_started, total_size, writes,
                   dealloc_log, thr_vars>>

\* one turn of the loop: *ptr.add(i) = 0
ExecWrite ==
    /\ pc = "mem_write"
    /\ LoopContinues
    /\ writes' = Append(writes, [off |-> i, val |-> 0, ptr |-> ptr])
    /\ i' = i + 1
    /\ UNCHANGED <<input_vars, pc, result, panic_msg, exit_status,
                   exec_started, total_size, layout, ptr, alloc_log,
                   dealloc_log, thr_vars>>

\* variant: the loop is over and the allocation is never released
ExecDeallocLeak ==
    /\ pc = "mem_write"
    /\ ~LoopContinues
    /\ pc' = "executed"
    /\ UNCHANGED <<input_vars, result, panic_msg, exit_status, exec_started,
                   total_size, layout, ptr, i, writes, alloc_log, dealloc_log,
                   thr_vars>>

\* the loop is over: std::alloc::dealloc(ptr, layout)
ExecDealloc ==
    /\ pc = "mem_write"
    /\ ~LoopContinues
    /\ dealloc_log' = Append(dealloc_log, layout)
    /\ ptr' = "freed"
    /\ pc' = "executed"
    /\ UNCHANGED <<input_vars, result, panic_msg, exit_status, exec_started,
                   total_size, layout, i, writes, alloc_log, thr_vars>>

\* execute returns; main then returns and the process ends with status 0
Return ==
    /\ pc = "executed"
    /\ IF caller = "main"
       THEN pc' = "exited" /\ exit_status' = 0
       ELSE pc' = "returned" /\ UNCHANGED exit_status
    /\ UNCHANGED <<input_vars, result, panic_msg, exec_started, mem_vars,
                   thr_vars>>

(***************************************************************************)
(* Thread::execute.                                                        *)
(***************************************************************************)
\* variant: the join loop leaves out the last handle
AfterJoinShort(j) == IF j + 1 < result.count THEN "thr_join" ELSE "thr_check"

\* where the parent goes once j handles are joined
AfterJoin(j) == IF j < result.count THEN "thr_join" ELSE "thr_check"

\* variant: the spawn loop runs over 0..=count
AfterSpawnInclusive(n) ==
    IF n <= result.count THEN "thr_spawn" ELSE AfterJoin(0)

\* where the parent goes once n workers are spawned
AfterSpawn(n) == IF n < result.count THEN "thr_spawn" ELSE AfterJoin(0)

\* handles and the channel are created
ExecBegin ==
    /\ pc = "thr_execute"
    /\ handles' = <<>>
    /\ chan' = <<>>
    /\ rx_alive' = TRUE
    /\ pc' = AfterSpawn(0)
    /\ UNCHANGED <<input_vars, result, panic_msg, exit_status, exec_started,
                   mem_vars, wpc, results, joined, hist_vars>>

\* one turn of the spawn loop: worker i is spawned and its handle pushed
ExecSpawn ==
    /\ pc = "thr_spawn"
    /\ LET w == Len(handles) + 1
       IN  /\ wpc' = [wpc EXCEPT ![w] = "running"]
           /\ handles' = Append(handles, w)
           /\ pc' = AfterSpawn(w)
    /\ UNCHANGED <<input_vars, result, panic_msg, exit_status, exec_started,
                   mem_vars, chan, results, joined, rx_alive, hist_vars>>

\* the process has not ended
Alive == exit_status = NoStatus

\* variant: a rendezvous channel, the send waits for the parent's receive
WorkerSendRendezvous(w) ==
    /\ Alive
    /\ wpc[w] = "running"
    /\ rx_alive => pc = "thr_recv" /\ chan = <<>>
    /\ IF rx_alive
       THEN /\ chan' = Append(chan, [from |-> w, val |-> Workload])
            /\ sent_log' = Append(sent_log, [from |-> w, val |-> Workload])
            /\ wpc' = [wpc EXCEPT ![w] = "sent"]
       ELSE /\ wpc' = [wpc EXCEPT ![w] = "panicked"]
            /\ UNCHANGED <<chan, sent_log>>
    /\ UNCHANGED <<input_vars, pc, result, panic_msg, exit_status,
                   exec_started, mem_vars, handles, results, joined,
                   rx_alive, recv_log>>

\* a worker computes fibonacci(30) and sends it; send fails without receiver
WorkerSend(w) ==
    /\ Alive
    /\ wpc[w] = "running"
    /\ IF rx_alive
       THEN /\ chan' = Append(chan, [from |-> w, val |-> Workload])
            /\ sent_log' = Append(sent_log, [from |-> w, val |-> Workload])
            /\ wpc' = [wpc EXCEPT ![w] = "sent"]
       ELSE /\ wpc' = [wpc EXCEPT ![w] = "panicked"]
            /\ UNCHANGED <<chan, sent_log>>
    /\ UNCHANGED <<input_vars, pc, result, panic_msg, exit_status,
                   exec_started, mem_vars, handles, results, joined,
                   rx_alive, recv_log>>

\* a worker reaches the end of its closure
WorkerFinish(w) ==
    /\ Alive
    /\ wpc[w] = "sent"
    /\ wpc' = [wpc EXCEPT ![w] = "finished"]
    /\ UNCHANGED <<input_vars, pc, result, panic_msg, exit_status,
                   exec_started, mem_vars, handles, chan, results, joined,
                   rx_alive, hist_vars>>

\* a worker terminates abnormally, before or after its send
WorkerPanic(w) ==
    /\ Alive
    /\ wpc[w] \in {"running", "sent"}
    /\ wpc' = [wpc EXCEPT ![w] = "panicked"]
    /\ UNCHANGED <<input_vars, pc, result, panic_msg, exit_status,
                   exec_started, mem_vars, handles, chan, results, joined,
                   rx_alive, hist_vars>>

\* variant: the parent does not wait for the worker to terminate
ExecJoinNoWait ==
    /\ pc = "thr_join"
    /\ LET w == handles[joined + 1]
       IN  /\ IF wpc[w] = "panicked"
              THEN /\ PanicWith("Thread panicked")
                   /\ rx_alive' = FALSE
              ELSE /\ pc' = "thr_recv"
                   /\ UNCHANGED <<panic_msg, exit_status, rx_alive>>
    /\ UNCHANGED <<input_vars, result, exec_started, mem_vars, handles, wpc,
                   chan, results, joined, hist_vars>>

\* variant: the result of join is dropped instead of unwrapped
ExecJoinIgnored ==
    /\ pc = "thr_join"
    /\ LET w == handles[joined + 1]
       IN  /\ wpc[w] \in {"finished", "panicked"}
           /\ pc' = "thr_recv"
           /\ UNCHANGED <<panic_msg, exit_status, rx_alive>>
    /\ UNCHANGED <<input_vars, result, exec_started, mem_vars, handles, wpc,
                   chan, results, joined, hist_vars>>

\* handle.join().expect(..) on the next handle, in spawn order
ExecJoin ==
    /\ pc = "thr_join"
    /\ LET w == handles[joined + 1]
       IN  /\ wpc[w] \in {"finished", "panicked"}
           /\ IF wpc[w] = "panicked"
              THEN /\ PanicWith("Thread panicked")
                   /\ rx_alive' = FALSE
              ELSE /\ pc' = "thr_recv"
                   /\ UNCHANGED <<panic_msg, exit_status, rx_alive>>
    /\ UNCHANGED <<input_vars, result, exec_started, mem_vars, handles, wpc,
                   chan, results, joined, hist_vars>>

\* variant: the message is read and left in the channel
ExecRecvPeek ==
    /\ pc = "thr_recv"
    /\ chan # <<>>
    /\ results' = Append(results, Head(chan).val)
    /\ recv_log' = Append(recv_log, Head(chan))
    /\ joined' = joined + 1
    /\ pc' = AfterJoin(joined + 1)
    /\ UNCHANGED <<input_vars, result, panic_msg, exit_status, exec_started,
                   mem_vars, handles, wpc, chan, rx_alive, sent_log>>

\* variant: the newest message is taken instead of the oldest
ExecRecvNewest ==
    /\ pc = "thr_recv"
    /\ chan # <<>>
    /\ results' = Append(results, chan[Len(chan)].val)
    /\ recv_log' = Append(recv_log, chan[Len(chan)])
    /\ chan' = SubSeq(chan, 1, Len(chan) - 1)
    /\ joined' = joined + 1
    /\ pc' = AfterJoin(joined + 1)
    /\ UNCHANGED <<input_vars, result, panic_msg, exit_status, exec_started,
                   mem_vars, handles, wpc, rx_alive, sent_log>>

\* rx.recv().unwrap() takes the oldest message; results.push(result)
ExecRecv ==
    /\ pc = "thr_recv"
    /\ chan # <<>>
    /\ results' = Append(results, Head(chan).val)
    /\ recv_log' = Append(recv_log, Head(chan))
    /\ chan' = Tail(chan)
    /\ joined' = joined + 1
    /\ pc' = AfterJoin(joined + 1)
    /\ UNCHANGED <<input_vars, result, panic_msg, exit_status, exec_started,
                   mem_vars, handles, wpc, rx_alive, sent_log>>

\* results[0], then every result is compared with it
ExecCheck ==
    /\ pc = "thr_check"
    /\ IF results = <<>>
       THEN /\ PanicWith("index out of bounds")
            /\ rx_alive' = FALSE
       ELSE LET first == results[1]
            IN  IF \E k \in 1..Len(results) : results[k] # first
                THEN /\ PanicWith("Inconsistent results from threads")
                     /\ rx_alive' = FALSE
                ELSE /\ pc' = "executed"
                     /\ rx_alive' = FALSE
                     /\ UNCHANGED <<panic_msg, exit_status>>
    /\ UNCHANGED <<input_vars, result, exec_started, mem_vars, handles, wpc,
                   chan, results, joined, hist_vars>>

Next ==
    \/ CallMemoryFromResource
    \/ CallThreadFromResource
    \/ HandleErr
    \/ CallExecute
    \/ ExecTotal
    \/ ExecAlloc
    \/ ExecWrite
    \/ ExecDealloc
    \/ Return
    \/ ExecBegin
    \/ ExecSpawn
    \/ \E w \in Workers : WorkerSend(w)
    \/ \E w \in Workers : WorkerFinish(w)
    \/ \E w \in Workers : WorkerPanic(w)
    \/ ExecJoin
    \/ ExecRecv
    \/ ExecCheck

Spec == Init /\ [][Next]_vars

\* a step of the calling thread on the way through Thread::execute
ParentStep ==
    \/ CallThreadFromResource
    \/ HandleErr
    \/ CallExecute
    \/ Return
    \/ ExecBegin
    \/ ExecSpawn
    \/ ExecJoin
    \/ ExecRecv
    \/ ExecCheck

\* the scheduler lets every thread that can run take its next step
Fairness ==
    /\ WF_vars(ParentStep)
    /\ \A w \in Workers : WF_vars(WorkerSend(w)) /\ WF_vars(WorkerFinish(w))

\* the runs of the tests and of the command line that termination is
\* checked on: every worker count, and a few size strings
FairArgs ==
    { <<"1", "0">>, <<"0", "K">>, <<"a", "b", "c", "K">>, <<"6", "4", "K">>,
      <<"0", "0", "0", "7", "B">> }

FairInit == Init /\ (res.kind = "Memory" => res.arg \in FairArgs)

FairSpec == FairInit /\ [][Next]_vars /\ Fairness

(***************************************************************************)
(* Vocabulary of the properties.                                           *)
(***************************************************************************)
Digits == {"0", "1", "2", "3", "4", "5", "6", "7", "8", "9"}

Suffixes == {"B", "K", "M", "G"}

DigitChars == <<"0", "1", "2", "3", "4", "5", "6", "7", "8", "9">>

DigitIndex(c) == CHOOSE d \in 0..9 : DigitChars[d + 1] = c

AllDigits(p) == \A k \in 1..Len(p) : p[k] \in Digits

HasSuffix(s) == Len(s) > 0 /\ s[Len(s)] \in Suffixes

PrefixOf(s) == SubSeq(s, 1, Len(s) - 1)

LastOf(s) == s[Len(s)]

RECURSIVE StripZeros(_)
StripZeros(p) ==
    IF Len(p) > 1 /\ p[1] = "0" THEN StripZeros(Tail(p)) ELSE p

\* p <= q for digit strings of equal length
RECURSIVE DigitsLe(_, _)
DigitsLe(p, q) ==
    IF p = <<>> THEN TRUE
    ELSE IF p[1] # q[1] THEN DigitIndex(p[1]) < DigitIndex(q[1])
    ELSE DigitsLe(Tail(p), Tail(q))

\* the decimal number p is at most 2^64 - 1
FitsU64(p) ==
    LET d == StripZeros(p)
    IN  \/ Len(d) < Len(U64MaxDigits)
        \/ Len(d) = Len(U64MaxDigits) /\ DigitsLe(d, U64MaxDigits)

\* quotient and remainder of the bytes 1..k of x, with carry-in rem, by ten
RECURSIVE DivTenFrom(_, _, _)
DivTenFrom(x, k, rem) ==
    IF k = 0 THEN [q |-> <<>>, r |-> rem]
    ELSE LET t    == rem * 256 + x[k]
             rest == DivTenFrom(x, k - 1, t % 10)
         IN  [q |-> Append(rest.q, t \div 10), r |-> rest.r]

RECURSIVE DecimalOfNonZero(_)
DecimalOfNonZero(x) ==
    IF x = Zeros(Len(x)) THEN <<>>
    ELSE LET d == DivTenFrom(x, Len(x), 0)
         IN  Append(DecimalOfNonZero(d.q), DigitChars[d.r + 1])

\* the decimal digits of a u64, without leading zeros
ToDecimal(x) == IF x = Zeros(Len(x)) THEN <<"0">> ELSE DecimalOfNonZero(x)

MultiplierOf(c) ==
    CASE c = "B" -> 1 [] c = "K" -> 1024 [] c = "M" -> 1048576
      [] c = "G" -> 1073741824

\* Memory::from_resource has been applied to a Memory resource
MemoryDecoded == ctor = "Memory" /\ res.kind = "Memory" /\ pc # "start"

\* digits that fit a u64, then one suffix
WellFormed(s) ==
    /\ HasSuffix(s)
    /\ Len(s) >= 2
    /\ AllDigits(PrefixOf(s))
    /\ FitsU64(PrefixOf(s))

(***************************************************************************)
(* C1: a size string of one or more digits whose value fits a u64,         *)
(* followed by one suffix of B, K, M, G, decodes to Ok with size the       *)
(* value of the digits and multiplier 1, 1024, 1024^2, 1024^3; "100B" is   *)
(* (100, 1), "2G" is (2, 1073741824), "0K" is (0, 1024).                   *)
(***************************************************************************)
C1_ValidDecodes ==
    /\ (MemoryDecoded /\ WellFormed(res.arg)) =>
          /\ result.tag = "Ok"
          /\ ToDecimal(result.size) = StripZeros(PrefixOf(res.arg))
          /\ result.multiplier = MultiplierOf(LastOf(res.arg))
    /\ (MemoryDecoded /\ res.arg = <<"1", "0", "0", "B">>) =>
          result.size = <<100, 0, 0, 0, 0, 0, 0, 0>> /\ result.multiplier = 1
    /\ (MemoryDecoded /\ res.arg = <<"2", "G">>) =>
          /\ result.size = <<2, 0, 0, 0, 0, 0, 0, 0>>
          /\ result.multiplier = 1073741824
    /\ (MemoryDecoded /\ res.arg = <<"0", "K">>) =>
          result.size = <<0, 0, 0, 0, 0, 0, 0, 0>> /\ result.multiplier = 1024

\* the largest u64, in mebibytes and with a leading zero, has been decoded
C1_Witness ==
    /\ MemoryDecoded
    /\ res.arg = <<"0">> \o U64MaxDigits \o <<"M">>
    /\ result.tag = "Ok"
    /\ result.size = <<255, 255, 255, 255, 255, 255, 255, 255>>
    /\ result.multiplier = 1048576

(***************************************************************************)
(* C2: a string whose last character is not B, K, M or G (the empty        *)
(* string, "10", "10X", "10k") makes Memory::from_resource return the      *)
(* invalid-suffix error as a value: no panic and no Memory strategy.       *)
(***************************************************************************)
C2_InvalidSuffixReturned ==
    (MemoryDecoded /\ ~HasSuffix(res.arg)) =>
        /\ result.tag = "Err"
        /\ result.msg = "Invalid memory size suffix. Use B, K, M, or G."
        /\ pc # "panicked"
        /\ panic_msg = ""
        /\ ~exec_started

\* a string with a suffix character that is not the last one was rejected
C2_Witness ==
    /\ MemoryDecoded
    /\ res.arg = <<"1", "K", "0">>
    /\ result.tag = "Err"
    /\ pc \in {"exited", "returned"}

(***************************************************************************)
(* C3: a string that ends in a valid suffix and whose prefix is empty or   *)
(* holds a character that is not an ASCII digit (a letter, a sign, a       *)
(* decimal point, whitespace) never yields a Memory strategy.              *)
(***************************************************************************)
C3_BadPrefixRejected ==
    (/\ MemoryDecoded
     /\ HasSuffix(res.arg)
     /\ (PrefixOf(res.arg) = <<>> \/ ~AllDigits(PrefixOf(res.arg)))) =>
        result.tag # "Ok"

(***************************************************************************)
(* C4: when the numeric prefix is empty, non-numeric or overflows,         *)
(* Memory::from_resource returns a failure value to its caller instead of  *)
(* aborting inside construction.                                           *)
(***************************************************************************)
\* the prefix without the one leading plus sign that u64 parsing accepts
Unsigned(p) == IF Len(p) >= 2 /\ p[1] = "+" THEN Tail(p) ELSE p

\* the prefix is empty, is not a number, or is a number above 2^64 - 1
UnparsablePrefix(p) ==
    \/ p = <<>>
    \/ ~AllDigits(Unsigned(p))
    \/ ~FitsU64(Unsigned(p))

C4_Original ==
    (/\ MemoryDecoded
     /\ HasSuffix(res.arg)
     /\ UnparsablePrefix(PrefixOf(res.arg))) =>
        result.tag = "Err" /\ pc # "panicked"

\* amended: the failed parse panics inside construction; nothing is
\* returned, execute never starts and main ends with the panic status
C4_ParseFailurePanics ==
    (/\ MemoryDecoded
     /\ HasSuffix(res.arg)
     /\ UnparsablePrefix(PrefixOf(res.arg))) =>
        /\ result.tag = "Panic"
        /\ result.detail.s = PrefixOf(res.arg)
        /\ result.detail.e \in {"Empty", "InvalidDigit", "PosOverflow"}
        /\ pc = "panicked"
        /\ panic_msg = "Failed to parse memory size"
        /\ ~exec_started
        /\ caller = "main" => exit_status = PanicStatus

\* 2^64 with suffix B was given to main, which panicked in construction
C4_Witness ==
    /\ MemoryDecoded
    /\ caller = "main"
    /\ res.arg = SubSeq(U64MaxDigits, 1, 19) \o <<"6", "B">>
    /\ result.tag = "Panic"
    /\ result.detail.e = "PosOverflow"
    /\ exit_status = PanicStatus

(***************************************************************************)
(* C5: a constructor given a resource of the other kind returns an error:  *)
(* Memory::from_resource on every Thread{num}, Thread::from_resource on    *)
(* every Memory{arg}, valid size string or not; no panic, no strategy.     *)
(***************************************************************************)
C5_WrongKindReturned ==
    (pc # "start" /\ ctor # res.kind) =>
        /\ result.tag = "Err"
        /\ result.msg = (IF ctor = "Memory"
                         THEN "Expected Memory resource, got Thread resource"
                         ELSE "Expected Thread resource, got Memory resource")
        /\ pc # "panicked"
        /\ panic_msg = ""
        /\ ~exec_started

\* Thread::from_resource was given the valid size string 100K
C5_Witness ==
    /\ ctor = "Thread"
    /\ res = ResMemory(<<"1", "0", "0", "K">>)
    /\ result.tag = "Err"
    /\ pc = "returned"

(***************************************************************************)
(* C6: a Memory strategy with size 0 and any multiplier is constructed,    *)
(* and its execute panics on the assertion before any allocation is        *)
(* requested: no allocation, no byte write, no release.                    *)
(***************************************************************************)
C6_ZeroSizeAborts ==
    (MemoryDecoded /\ result.tag = "Ok" /\ result.size = Zeros(8)) =>
        /\ result.multiplier \in {1, 1024, 1048576, 1073741824}
        /\ alloc_log = <<>>
        /\ writes = <<>>
        /\ dealloc_log = <<>>
        /\ ptr = "none"
        /\ pc \in {"constructed", "mem_execute", "panicked"}
        /\ pc = "panicked" =>
              /\ panic_msg = "Memory size must be greater than 0"
              /\ total_size = Zeros(8)

\* "0K" was constructed and executed, and execute panicked
C6_Witness ==
    /\ MemoryDecoded
    /\ res.arg = <<"0", "K">>
    /\ result.tag = "Ok"
    /\ result.multiplier = 1024
    /\ exec_started
    /\ pc = "panicked"

(***************************************************************************)
(* C7: a Thread strategy with count N >= 1 and no worker failure ends, in  *)
(* every interleaving, with exactly N results, each fibonacci(30) =        *)
(* 832040; the parent never panics, on inconsistent results or otherwise.  *)
(***************************************************************************)
NoWorkerFailed == \A w \in Workers : wpc[w] # "panicked"

ThreadExecuted == ctor = "Thread" /\ result.tag = "Ok" /\ exec_started

C7_AllResultsEqualFib30 ==
    /\ (ThreadExecuted /\ result.count >= 1 /\ NoWorkerFailed) =>
          /\ pc # "panicked"
          /\ Len(results) <= result.count
          /\ \A k \in 1..Len(results) : results[k] = 832040
          /\ pc \in {"executed", "exited", "returned"} =>
                Len(results) = result.count
    /\ panic_msg # "Inconsistent results from threads"

\* main ran two or more workers to the end
C7_Witness ==
    /\ ThreadExecuted
    /\ caller = "main"
    /\ result.count >= 2
    /\ Len(results) = result.count
    /\ NoWorkerFailed
    /\ exit_status = 0

(***************************************************************************)
(* C8: a Thread strategy with count 0 executes without aborting: no        *)
(* worker, an empty result set, and no panic on the first result.          *)
(***************************************************************************)
C8_ZeroCountNoPanic ==
    (ThreadExecuted /\ result.count = 0) =>
        /\ handles = <<>>
        /\ results = <<>>
        /\ pc # "panicked"

(***************************************************************************)
(* C9: in main, a construction error ends the process with a non-zero      *)
(* status and execute never starts (nothing allocated, no worker           *)
(* spawned); a completed execution ends the process with status 0.         *)
(***************************************************************************)
C9_ExitStatus ==
    caller = "main" =>
        /\ result.tag \in {"Err", "Panic"} =>
              /\ ~exec_started
              /\ alloc_log = <<>>
              /\ handles = <<>>
              /\ exit_status # 0
              /\ pc \in {"constructed", "exited", "panicked"}
              /\ pc # "constructed" => exit_status \in {1, 101}
        /\ pc = "exited" /\ exec_started => exit_status = 0
        /\ exit_status = 0 =>
              /\ result.tag = "Ok"
              /\ exec_started
              /\ panic_msg = ""
              /\ ctor = "Memory" => ptr = "freed"
              /\ ctor = "Thread" => Len(results) = result.count

\* main was given "10", printed the error and left with status 1
C9_Witness ==
    /\ caller = "main"
    /\ res.arg = <<"1", "0">>
    /\ result.tag = "Err"
    /\ pc = "exited"
    /\ exit_status = 1

(***************************************************************************)
(* C10: with total_size > 0 and a successful allocation, 0 is written to   *)
(* every offset 0 .. total_size - 1 exactly once and in ascending order,   *)
(* to no other offset, and the release follows the last write.             *)
(***************************************************************************)
C10_WritesAscending ==
    /\ \A k \in 1..Len(writes) :
          /\ writes[k].off = k - 1
          /\ writes[k].val = 0
          /\ writes[k].ptr = "live"
    /\ writes # <<>> =>
          U64Lt(U64FromNat(writes[Len(writes)].off), total_size)
    /\ writes # <<>> => alloc_log = <<[size |-> total_size, align |-> 8]>>
    /\ ptr = "freed" => U64FromNat(Len(writes)) = total_size
    /\ dealloc_log # <<>> => ptr = "freed"

\* the 1024 bytes of "1K" were written and released
C10_Witness ==
    /\ res.arg = <<"1", "K">>
    /\ ptr = "freed"
    /\ Len(writes) = 1024
    /\ writes[1024].off = 1023

(***************************************************************************)
(* C11: a Memory::execute that returns normally made exactly one           *)
(* allocation and released it exactly once with the same size and          *)
(* alignment 8; no byte is written after the release and nothing           *)
(* allocated by execute is live when it returns.                           *)
(***************************************************************************)
MemoryExecuted == ctor = "Memory" /\ result.tag = "Ok" /\ exec_started

ReturnedNormally == pc \in {"executed", "exited", "returned"}

C11_OneAllocationOneRelease ==
    /\ Len(alloc_log) <= 1
    /\ Len(dealloc_log) <= 1
    /\ \A k \in 1..Len(dealloc_log) : dealloc_log[k] = alloc_log[k]
    /\ \A k \in 1..Len(alloc_log) : alloc_log[k].align = 8
    /\ (MemoryExecuted /\ ReturnedNormally) =>
          /\ Len(alloc_log) = 1
          /\ Len(dealloc_log) = 1
          /\ alloc_log[1].size = total_size
          /\ ptr = "freed"
    /\ ptr = "freed" => ~ENABLED ExecWrite

\* the 100 bytes of "100B" were allocated, written and released in a test
C11_Witness ==
    /\ MemoryExecuted
    /\ caller = "test"
    /\ res.arg = <<"1", "0", "0", "B">>
    /\ pc = "returned"
    /\ dealloc_log = <<[size |-> <<100, 0, 0, 0, 0, 0, 0, 0>>, align |-> 8]>>

(***************************************************************************)
(* C12: when the allocator returns null, Memory::execute panics at that    *)
(* point: no byte is written, no release is called and execute never       *)
(* returns normally.                                                       *)
(***************************************************************************)
C12_NullAborts ==
    ptr = "null" =>
        /\ pc = "panicked"
        /\ panic_msg = "Memory allocation failed"
        /\ writes = <<>>
        /\ dealloc_log = <<>>
        /\ Len(alloc_log) = 1
        /\ caller = "main" => exit_status = PanicStatus

\* main asked for 64K, more than the allocator has, and got null
C12_Witness ==
    /\ caller = "main"
    /\ res.arg = <<"6", "4", "K">>
    /\ ptr = "null"
    /\ alloc_log = <<[size |-> <<0, 0, 1, 0, 0, 0, 0, 0>>, align |-> 8]>>
    /\ pc = "panicked"

(***************************************************************************)
(* C13: the parent joins a worker before each receive, so at its k-th      *)
(* receive more messages have been sent than received: the channel holds   *)
(* a message and the receive never waits.                                  *)
(***************************************************************************)
SentBy(w) == \E k \in 1..Len(sent_log) : sent_log[k].from = w

C13_ReceiveNeverWaits ==
    pc = "thr_recv" =>
        /\ joined < result.count
        /\ Len(recv_log) = joined
        /\ wpc[handles[joined + 1]] = "finished"
        /\ SentBy(handles[joined + 1])
        /\ Len(sent_log) > Len(recv_log)
        /\ chan # <<>>
        /\ ENABLED ExecRecv

\* the second receive, with exactly one message in the channel
C13_Witness ==
    /\ pc = "thr_recv"
    /\ joined = 1
    /\ Len(chan) = 1
    /\ Len(sent_log) = 2

(***************************************************************************)
(* C14: every worker sends exactly one message and only the parent         *)
(* receives; received + in channel = sent <= count in every state, and     *)
(* when execute completes sends = joins = receives = count and the         *)
(* channel is empty.                                                       *)
(***************************************************************************)
C14_MessageCounts ==
    /\ Len(recv_log) + Len(chan) = Len(sent_log)
    /\ Len(sent_log) <= result.count
    /\ Len(results) = Len(recv_log)
    /\ joined = Len(recv_log)
    /\ \A k, l \in 1..Len(sent_log) :
          sent_log[k].from = sent_log[l].from => k = l
    /\ \A w \in Workers : wpc[w] \in {"sent", "finished"} => SentBy(w)
    /\ \A w \in Workers : wpc[w] \in {"none", "running"} => ~SentBy(w)
    /\ (ThreadExecuted /\ ReturnedNormally) =>
          /\ Len(sent_log) = result.count
          /\ joined = result.count
          /\ Len(recv_log) = result.count
          /\ chan = <<>>

\* execute is over for two or more workers and the channel is empty
C14_Witness ==
    /\ ThreadExecuted
    /\ pc = "executed"
    /\ result.count >= 2
    /\ Len(sent_log) = result.count
    /\ Len(recv_log) = result.count
    /\ chan = <<>>

(***************************************************************************)
(* C15: if a worker terminates abnormally, Thread::execute panics on its   *)
(* join: execute never completes (reaches the consistency check or         *)
(* returns) with a failed worker or with fewer than count results.         *)
(***************************************************************************)
C15_WorkerFailureIsFatal ==
    /\ (ThreadExecuted /\ (ReturnedNormally \/ pc = "thr_check")) =>
          /\ NoWorkerFailed
          /\ Len(results) = result.count
    /\ \A k \in 1..joined : wpc[handles[k]] = "finished"
    /\ panic_msg = "Thread panicked" =>
          /\ pc = "panicked"
          /\ wpc[handles[joined + 1]] = "panicked"
          /\ Len(results) < result.count

\* the second worker failed after its send and the parent panicked on it
C15_Witness ==
    /\ panic_msg = "Thread panicked"
    /\ joined = 1
    /\ SentBy(handles[2])
    /\ wpc[handles[2]] = "panicked"

(***************************************************************************)
(* C16: under fair scheduling and with no worker failure, Thread::execute  *)
(* with count >= 1 eventually terminates; a worker's send is never         *)
(* blocked, so it never waits for a parent that waits to join it.          *)
(***************************************************************************)
C16_Terminates ==
    /\ [](\A w \in Workers :
            (Alive /\ wpc[w] = "running") => ENABLED WorkerSend(w))
    /\ (ThreadExecuted /\ result.count >= 1)
          ~> (ReturnedNormally \/ ~NoWorkerFailed)

\* a test ran execute to its return, every worker spawned having finished
C16_Witness ==
    /\ ThreadExecuted
    /\ caller = "test"
    /\ pc = "returned"
    /\ result.count >= 1
    /\ \A w \in 1..result.count : wpc[w] = "finished"

(***************************************************************************)
(* C17: messages reach the parent in the order they were sent, not in      *)
(* spawn order: the message received after joining worker i may come from  *)
(* another worker, and the results are always exactly the multiset of the  *)
(* values sent.                                                            *)
(***************************************************************************)
Occurrences(seq, v) == Cardinality({k \in 1..Len(seq) : seq[k] = v})

ValuesOf(log) == [k \in 1..Len(log) |-> log[k].val]

C17_DeliveredInSendOrder ==
    /\ recv_log = SubSeq(sent_log, 1, Len(recv_log))
    /\ chan = SubSeq(sent_log, Len(recv_log) + 1, Len(sent_log))
    /\ results = ValuesOf(recv_log)
    /\ (ThreadExecuted /\ ReturnedNormally) =>
          \A v \in {results[k] : k \in 1..Len(results)}
                  \cup {sent_log[k].val : k \in 1..Len(sent_log)} :
              Occurrences(results, v) = Occurrences(ValuesOf(sent_log), v)

\* execute is over and the first message received was the second worker's
C17_Witness ==
    /\ ThreadExecuted
    /\ ReturnedNormally
    /\ result.count >= 2
    /\ handles[1] = 1
    /\ recv_log[1].from = 2
    /\ sent_log[1].from = 2

(***************************************************************************)
(* C18: all workers are spawned eagerly: the first join or receive comes   *)
(* after all count workers are spawned, and exactly count workers are      *)
(* spawned, with spawn indices 0 .. count - 1, each once.                  *)
(***************************************************************************)
JoinLoopReached ==
    \/ pc \in {"thr_join", "thr_recv", "thr_check"}
    \/ joined > 0
    \/ recv_log # <<>>
    \/ panic_msg = "Thread panicked"
    \/ ThreadExecuted /\ ReturnedNormally

C18_SpawnedEagerly ==
    /\ Len(handles) <= result.count
    /\ \A k \in 1..Len(handles) : handles[k] = k
    /\ \A w \in Workers : wpc[w] # "none" <=> w <= Len(handles)
    /\ JoinLoopReached => Len(handles) = result.count

\* the parent is at its first join; every worker is spawned, none has sent
C18_Witness ==
    /\ pc = "thr_join"
    /\ joined = 0
    /\ result.count >= 2
    /\ Len(handles) = result.count
    /\ \A w \in 1..result.count : wpc[w] = "running"

(***************************************************************************)
(* C19: the number of bytes Memory::execute allocates is the mathematical  *)
(* product size * multiplier: the 64-bit multiplication never wraps to a   *)
(* smaller total, or to 0, that is checked or allocated in its place.      *)
(***************************************************************************)
\* total_size has been computed and execute went on with it
TotalComputed ==
    /\ MemoryExecuted
    /\ \/ pc \in {"mem_alloc", "mem_write", "executed"}
       \/ alloc_log # <<>>
       \/ panic_msg = "Memory size must be greater than 0"

C19_ProductNeverWraps ==
    TotalComputed =>
        WideMul(result.size, U64FromNat(result.multiplier))
            = total_size \o Zeros(8)

====
